---- MODULE Spec2Model ----
(***************************************************************************)
(* State-machine model of the tile viewer in website/public/app.js: the    *)
(* viewport (zoom, pan), the tile cache (tileImages, loadingTiles), the    *)
(* asynchronous loadVisibleTiles passes and the product list loads.        *)
(*                                                                         *)
(* JavaScript runs one task at a time: every action below is one handler   *)
(* or one continuation of an async function, run from its start (or from   *)
(* the await it was suspended at) to its next await or its end.            *)
(*                                                                         *)
(* Numbers: pan, dragStart and the mouse position are dyadic rationals in  *)
(* the program (halved by every zoom-out step); they are held here as      *)
(* integers in units of 1/Sub pixel, which is exact for the values the     *)
(* model reaches: a behaviour halves pan at most MaxInputs times.          *)
(***************************************************************************)
EXTENDS Integers, Sequences, FiniteSets, Bags, TLC

VARIABLES
    currentProduct,   \* app.js:6   NoProduct (null) or a product record
    options,          \* the <option>s of productSelect that carry dataset.info
    zoom,             \* app.js:7
    pan,              \* app.js:8   [x, y] in 1/Sub pixel
    isDragging,       \* app.js:9
    dragStart,        \* app.js:10  [x, y] in 1/Sub pixel
    tileImages,       \* app.js:11  Map: key -> image (the tile URL it was loaded from)
    loadingTiles,     \* app.js:12  Set of keys
    canvas,           \* canvas.width / canvas.height, in pixels
    passes,           \* bag of suspended loadVisibleTiles activations
    productLoads,     \* number of loadProducts activations awaiting their response
    generates,        \* number of tile-range generation requests awaiting their response
    reloadTimers,     \* number of pending setTimeout(loadProducts, 3000) timers
    lastOp,           \* history: the handler or continuation that ran last
    inputs            \* history: the number of input events handled so far

vars == <<currentProduct, options, zoom, pan, isDragging, dragStart, tileImages,
          loadingTiles, canvas, passes, productLoads, generates, reloadTimers, lastOp,
          inputs>>

----------------------------------------------------------------------------
(* Program constants and the bounds of the model *)

TILE_SIZE == 256

\* initial zoom, and the zoom resetView returns to
BaseZoom == 1

\* at most this many input events (pointer, wheel, buttons, product selection,
\* form submission, window resize) are handled in one behaviour
MaxInputs == 3

\* currentProduct = null
NoProduct == [id |-> "null", max_zoom |-> 0]

ProductA == [id |-> "A", max_zoom |-> 2]

ProductB == [id |-> "B", max_zoom |-> 0]

\* bodies the server may answer GET /products with (data.products)
ProductLists == {<< >>, <<ProductA, ProductB>>}

\* sub-pixel units per pixel: one binary place for the half pixel of a canvas
\* centre and one for every zoom step a behaviour can take
Sub == 2 ^ (MaxInputs + 1)

\* sizes the canvas' parent element can have
CanvasSizes == {[width |-> 256, height |-> 256], [width |-> 512, height |-> 256]}

\* the size of the canvas' parent element when init() runs
InitialCanvas == [width |-> 256, height |-> 256]

\* positions (clientX, clientY) of the pointer, in pixels
MousePoints == {[x |-> 0, y |-> 0], [x |-> 256, y |-> 0]}

----------------------------------------------------------------------------
(* Arithmetic *)

Max(a, b) == IF a >= b THEN a ELSE b

Min(a, b) == IF a <= b THEN a ELSE b

\* Math.floor(a / b) for b > 0
Floor(a, b) == a \div b

\* Math.ceil(a / b) for b > 0
Ceil(a, b) == -((-a) \div b)

\* v * Math.pow(2, d)
Scale(v, d) == IF d >= 0 THEN v * (2 ^ d) ELSE v \div (2 ^ (-d))

----------------------------------------------------------------------------
(* Tiles, keys and the visible set *)

\* the cache key `${tile.zoom}-${tile.row}-${tile.col}`
Key(tile) == ToString(tile.zoom) \o "-" \o ToString(tile.row) \o "-" \o ToString(tile.col)

\* the image decoded from GET /tile/{product}/{zoom}/{row}/{col}
Image(productId, tile) ==
    [product |-> productId, zoom |-> tile.zoom, row |-> tile.row, col |-> tile.col]

\* new Map() / tileImages.clear()
EmptyMap == [k \in {} |-> Image(NoProduct.id, [zoom |-> 0, row |-> 0, col |-> 0])]

\* tileImages.set(key, img)
MapSet(m, key, img) == [k \in DOMAIN m \cup {key} |-> IF k = key THEN img ELSE m[k]]

\* the rows startRow..endRow by the columns startCol..endCol, row by row
TileGrid(startRow, endRow, startCol, endCol, z) ==
    IF endRow < startRow \/ endCol < startCol
    THEN << >>
    ELSE LET nCols == endCol - startCol + 1
             nRows == endRow - startRow + 1
         IN  [i \in 1..(nRows * nCols) |->
                [row  |-> startRow + ((i - 1) \div nCols),
                 col  |-> startCol + ((i - 1) % nCols),
                 zoom |-> z]]

\* getVisibleTiles with the end of each range not clamped to the grid
getVisibleTilesNoClamp(product, z, pn, cv) ==
    IF product = NoProduct
    THEN << >>
    ELSE LET tileScale == TILE_SIZE * (2 ^ z) * Sub
             startCol == Max(0, Floor(-pn.x, tileScale))
             endCol   == Ceil(cv.width * Sub - pn.x, tileScale)
             startRow == Max(0, Floor(-pn.y, tileScale))
             endRow   == Ceil(cv.height * Sub - pn.y, tileScale)
         IN  TileGrid(startRow, endRow, startCol, endCol, z)

getVisibleTiles(product, z, pn, cv) ==
    IF product = NoProduct
    THEN << >>
    ELSE LET tileScale   == TILE_SIZE * (2 ^ z) * Sub
             tilesInView == 2 ^ z
             startCol == Max(0, Floor(-pn.x, tileScale))
             endCol   == Min(tilesInView - 1, Ceil(cv.width * Sub - pn.x, tileScale))
             startRow == Max(0, Floor(-pn.y, tileScale))
             endRow   == Min(tilesInView - 1, Ceil(cv.height * Sub - pn.y, tileScale))
         IN  TileGrid(startRow, endRow, startCol, endCol, z)

\* the pan resetView sets: the base tile centred on the canvas
CenteredPan(cv) ==
    [x |-> (cv.width * Sub) \div 2 - (TILE_SIZE * Sub) \div 2,
     y |-> (cv.height * Sub) \div 2 - (TILE_SIZE * Sub) \div 2]

\* the pan setZoom sets when the zoom goes from oldZoom to newZoom
ZoomedPan(pn, cv, oldZoom, newZoom) ==
    LET centerX == (cv.width * Sub) \div 2
        centerY == (cv.height * Sub) \div 2
    IN  [x |-> centerX - Scale(centerX - pn.x, newZoom - oldZoom),
         y |-> centerY - Scale(centerY - pn.y, newZoom - oldZoom)]

\* Math.max(0, Math.min(currentProduct.max_zoom, newZoom))
ClampZoom(product, newZoom) == Max(0, Min(product.max_zoom, newZoom))

----------------------------------------------------------------------------
(* loadVisibleTiles *)

\* the loop's condition without its test of the in-flight set
NeedsFetchIgnoringLoading(tile, imgs, loading) ==
    Key(tile) \notin DOMAIN imgs

\* the loop's condition without its test of the cache
NeedsFetchIgnoringCache(tile, imgs, loading) ==
    Key(tile) \notin loading

\* the condition under which the loop body fetches a tile
NeedsFetch(tile, imgs, loading) ==
    Key(tile) \notin DOMAIN imgs /\ Key(tile) \notin loading

\* The loop of loadVisibleTiles from its current tile list up to its next
\* await: tiles that are cached or in flight are skipped; the first other tile
\* is marked in flight and its fetch is issued for the product current now,
\* which suspends the activation; with no such tile the activation ends.
RunLoop(tiles, product, imgs, loading) ==
    LET todo == {i \in 1..Len(tiles) : NeedsFetch(tiles[i], imgs, loading)}
    IN  IF todo = {}
        THEN [loading |-> loading, spawned |-> EmptyBag]
        ELSE LET i == CHOOSE j \in todo : \A k \in todo : j <= k
             IN  [loading |-> loading \cup {Key(tiles[i])},
                  spawned |-> SetToBag({[tile    |-> tiles[i],
                                         rest    |-> SubSeq(tiles, i + 1, Len(tiles)),
                                         product |-> product.id]})]

\* a call of loadVisibleTiles() up to its first await
loadVisibleTiles(product, z, pn, cv, imgs, loading) ==
    IF product = NoProduct
    THEN [loading |-> loading, spawned |-> EmptyBag]
    ELSE RunLoop(getVisibleTiles(product, z, pn, cv), product, imgs, loading)

\* a finally block that leaves the in-flight mark in place
FinallyKeepsMark(loading, key) == loading

\* finally { loadingTiles.delete(key) }
FinallyLoading(loading, key) == loading \ {key}

\* setZoom without its test: every call clears and reloads
ZoomAlwaysChanged(newZoom, oldZoom) == TRUE

\* the test of setZoom that guards the pan update, the cache clear and the reload
ZoomChanged(newZoom, oldZoom) == newZoom # oldZoom

----------------------------------------------------------------------------
(* Initial state: the module has been evaluated and init() has returned.   *)
(* resizeCanvas() has sized the canvas (no product yet, so no tiles are    *)
(* loaded), loadProducts() is awaiting its response and render() has       *)
(* scheduled itself.                                                       *)

Init ==
    /\ currentProduct = NoProduct
    /\ options = << >>
    /\ zoom = BaseZoom
    /\ pan = [x |-> 0, y |-> 0]
    /\ isDragging = FALSE
    /\ dragStart = [x |-> 0, y |-> 0]
    /\ tileImages = EmptyMap
    /\ loadingTiles = {}
    /\ canvas = InitialCanvas
    /\ passes = EmptyBag
    /\ productLoads = 1
    /\ generates = 0
    /\ reloadTimers = 0
    /\ lastOp = "init"
    /\ inputs = 0

----------------------------------------------------------------------------
(* Input handlers *)

\* window 'resize'
resizeCanvas(size) ==
    LET r == loadVisibleTiles(currentProduct, zoom, pan, size, tileImages, loadingTiles)
    IN  /\ canvas' = size
        /\ loadingTiles' = r.loading
        /\ passes' = passes (+) r.spawned
        /\ lastOp' = "resizeCanvas"
        /\ UNCHANGED <<currentProduct, options, zoom, pan, isDragging, dragStart,
                       tileImages, productLoads, generates, reloadTimers>>

\* productSelect 'change': the user picks an option other than the selected one
handleProductChange(option) ==
    /\ option # currentProduct
    /\ LET r == loadVisibleTiles(option, BaseZoom, CenteredPan(canvas), canvas, EmptyMap, {})
       IN  /\ currentProduct' = option
           /\ zoom' = BaseZoom
           /\ pan' = CenteredPan(canvas)
           /\ tileImages' = EmptyMap
           /\ loadingTiles' = r.loading
           /\ passes' = passes (+) r.spawned
       /\ lastOp' = "handleProductChange"
    /\ UNCHANGED <<options, isDragging, dragStart, canvas, productLoads, generates,
                   reloadTimers>>

\* resetBtn 'click'
resetView ==
    /\ zoom' = BaseZoom
    /\ pan' = CenteredPan(canvas)
    /\ lastOp' = "resetView"
    /\ UNCHANGED <<currentProduct, options, isDragging, dragStart, tileImages,
                   loadingTiles, canvas, passes, productLoads, generates, reloadTimers>>

setZoom(newZoom) ==
    IF currentProduct = NoProduct
    THEN /\ lastOp' = "setZoom:noProduct"
         /\ UNCHANGED <<currentProduct, options, zoom, pan, isDragging, dragStart,
                        tileImages, loadingTiles, canvas, passes, productLoads,
                        generates, reloadTimers>>
    ELSE LET z == ClampZoom(currentProduct, newZoom)
         IN  IF ZoomChanged(z, zoom)
             THEN LET pn == ZoomedPan(pan, canvas, zoom, z)
                      r  == loadVisibleTiles(currentProduct, z, pn, canvas, EmptyMap, {})
                  IN  /\ zoom' = z
                      /\ pan' = pn
                      /\ tileImages' = EmptyMap
                      /\ loadingTiles' = r.loading
                      /\ passes' = passes (+) r.spawned
                      /\ lastOp' = "setZoom:changed"
                      /\ UNCHANGED <<currentProduct, options, isDragging, dragStart,
                                     canvas, productLoads, generates, reloadTimers>>
             ELSE /\ zoom' = z
                  /\ lastOp' = "setZoom:same"
                  /\ UNCHANGED <<currentProduct, options, pan, isDragging, dragStart,
                                 tileImages, loadingTiles, canvas, passes, productLoads,
                                 generates, reloadTimers>>

\* zoomInBtn 'click'
ZoomInClick == setZoom(zoom + 1)

\* zoomOutBtn 'click'
ZoomOutClick == setZoom(zoom - 1)

\* canvas 'wheel'
handleWheel(deltaY) == setZoom(zoom + (IF deltaY > 0 THEN -1 ELSE 1))

\* canvas 'mousedown', and 'touchstart' through handleTouchStart
handleMouseDown(e) ==
    /\ isDragging' = TRUE
    /\ dragStart' = [x |-> e.x * Sub - pan.x, y |-> e.y * Sub - pan.y]
    /\ lastOp' = "handleMouseDown"
    /\ UNCHANGED <<currentProduct, options, zoom, pan, tileImages, loadingTiles,
                   canvas, passes, productLoads, generates, reloadTimers>>

\* canvas 'mousemove', and 'touchmove' through handleTouchMove
handleMouseMove(e) ==
    IF ~isDragging
    THEN /\ lastOp' = "handleMouseMove:idle"
         /\ UNCHANGED <<currentProduct, options, zoom, pan, isDragging, dragStart,
                        tileImages, loadingTiles, canvas, passes, productLoads,
                        generates, reloadTimers>>
    ELSE LET pn == [x |-> e.x * Sub - dragStart.x, y |-> e.y * Sub - dragStart.y]
             r  == loadVisibleTiles(currentProduct, zoom, pn, canvas, tileImages,
                                    loadingTiles)
         IN  /\ pan' = pn
             /\ loadingTiles' = r.loading
             /\ passes' = passes (+) r.spawned
             /\ lastOp' = "handleMouseMove:drag"
             /\ UNCHANGED <<currentProduct, options, zoom, isDragging, dragStart,
                            tileImages, canvas, productLoads, generates, reloadTimers>>

\* canvas 'mouseup' and 'mouseleave', and 'touchend' through handleTouchEnd
handleMouseUp ==
    /\ isDragging' = FALSE
    /\ lastOp' = "handleMouseUp"
    /\ UNCHANGED <<currentProduct, options, zoom, pan, dragStart, tileImages,
                   loadingTiles, canvas, passes, productLoads, generates, reloadTimers>>

----------------------------------------------------------------------------
(* Continuations of loadVisibleTiles *)

\* The activation p leaves its try statement: the finally block clears the
\* in-flight mark of its key and the loop goes on with the tiles left in the
\* list p computed when it started, up to the next fetch or the end.
Resume(p, imgs) ==
    LET r == RunLoop(p.rest, currentProduct, imgs, FinallyLoading(loadingTiles, Key(p.tile)))
    IN  /\ tileImages' = imgs
        /\ loadingTiles' = r.loading
        /\ passes' = (passes (-) SetToBag({p})) (+) r.spawned
        /\ UNCHANGED <<currentProduct, options, zoom, pan, isDragging, dragStart,
                       canvas, productLoads, generates, reloadTimers>>

\* The awaits of the try statement settle. Between await fetch(url), await
\* response.blob() and the await of the image's onload/onerror the activation
\* touches no shared state, so the three are one suspension here, settled
\* with one of: the image loaded ("ok"); a response without response.ok
\* ("notOk": 404, 500); fetch or blob rejected ("rejected": transport error);
\* onerror fired ("decodeError").
TileSettled(p, outcome) ==
    /\ BagIn(p, passes)
    /\ \/ /\ outcome = "ok"
          /\ Resume(p, MapSet(tileImages, Key(p.tile), Image(p.product, p.tile)))
          /\ lastOp' = "tile:loaded"
       \/ /\ outcome \in {"notOk", "rejected", "decodeError"}
          /\ Resume(p, tileImages)
          /\ lastOp' = "tile:failed"

----------------------------------------------------------------------------
(* Product list and tile-range generation *)

\* loadProducts after its awaits: the list arrived (possibly empty), or the
\* fetch or the JSON parse failed
loadProducts(outcome, products) ==
    /\ productLoads > 0
    /\ productLoads' = productLoads - 1
    /\ \/ /\ outcome = "ok"
          /\ Len(products) > 0
          /\ options' = products
          /\ currentProduct' = products[1]
          /\ zoom' = BaseZoom
          /\ pan' = CenteredPan(canvas)
          /\ lastOp' = "loadProducts:loaded"
       \/ /\ \/ outcome = "ok" /\ Len(products) = 0
             \/ outcome = "rejected" /\ products = << >>
          /\ options' = << >>
          /\ lastOp' = "loadProducts:none"
          /\ UNCHANGED <<currentProduct, zoom, pan>>
    /\ UNCHANGED <<isDragging, dragStart, tileImages, loadingTiles, canvas, passes,
                   generates, reloadTimers>>

\* cacheForm 'submit'
handleCacheTiles ==
    /\ IF currentProduct = NoProduct
       THEN /\ lastOp' = "cache:noProduct"
            /\ UNCHANGED generates
       ELSE /\ generates' = generates + 1
            /\ lastOp' = "cache:requested"
    /\ UNCHANGED <<currentProduct, options, zoom, pan, isDragging, dragStart,
                   tileImages, loadingTiles, canvas, passes, productLoads, reloadTimers>>

\* quickCacheBtn 'click'
handleQuickCache ==
    /\ IF \/ currentProduct = NoProduct
          \/ Len(getVisibleTiles(currentProduct, zoom, pan, canvas)) = 0
       THEN /\ lastOp' = "cache:nothing"
            /\ UNCHANGED generates
       ELSE /\ generates' = generates + 1
            /\ lastOp' = "cache:requested"
    /\ UNCHANGED <<currentProduct, options, zoom, pan, isDragging, dragStart,
                   tileImages, loadingTiles, canvas, passes, productLoads, reloadTimers>>

\* the POST /generate of handleCacheTiles or handleQuickCache settles; on
\* response.ok the product list reload is scheduled
GenerateDone(outcome) ==
    /\ generates > 0
    /\ generates' = generates - 1
    /\ IF outcome = "ok"
       THEN /\ reloadTimers' = reloadTimers + 1
            /\ lastOp' = "generate:accepted"
       ELSE /\ UNCHANGED reloadTimers
            /\ lastOp' = "generate:failed"
    /\ UNCHANGED <<currentProduct, options, zoom, pan, isDragging, dragStart,
                   tileImages, loadingTiles, canvas, passes, productLoads>>

\* setTimeout(() => { loadProducts(); }, 3000) fires: loadProducts runs to its first await
ReloadTimer ==
    /\ reloadTimers > 0
    /\ reloadTimers' = reloadTimers - 1
    /\ productLoads' = productLoads + 1
    /\ lastOp' = "reloadTimer"
    /\ UNCHANGED <<currentProduct, options, zoom, pan, isDragging, dragStart,
                   tileImages, loadingTiles, canvas, passes, generates>>

\* a render loop whose frame is held back while a tile fetch is outstanding
renderAfterFetches ==
    /\ passes = EmptyBag
    /\ lastOp' = "render"
    /\ UNCHANGED <<currentProduct, options, zoom, pan, isDragging, dragStart,
                   tileImages, loadingTiles, canvas, passes, productLoads, generates,
                   reloadTimers>>

\* one frame of the render loop: paints from the current state, changes none
\* of it and schedules itself again with requestAnimationFrame
render ==
    /\ lastOp' = "render"
    /\ UNCHANGED <<currentProduct, options, zoom, pan, isDragging, dragStart,
                   tileImages, loadingTiles, canvas, passes, productLoads, generates,
                   reloadTimers>>

----------------------------------------------------------------------------

\* an input event: the environment delivers at most MaxInputs of them
Input(handler) ==
    /\ inputs < MaxInputs
    /\ inputs' = inputs + 1
    /\ handler

\* a continuation, timer or frame the event loop runs on its own
System(step) ==
    /\ step
    /\ UNCHANGED inputs

Next ==
    \/ \E size \in CanvasSizes : Input(resizeCanvas(size))
    \/ \E i \in 1..Len(options) : Input(handleProductChange(options[i]))
    \/ Input(resetView)
    \/ Input(ZoomInClick)
    \/ Input(ZoomOutClick)
    \/ \E deltaY \in {-100, 100} : Input(handleWheel(deltaY))
    \/ \E e \in MousePoints : Input(handleMouseDown(e))
    \/ \E e \in MousePoints : Input(handleMouseMove(e))
    \/ Input(handleMouseUp)
    \/ Input(handleCacheTiles)
    \/ Input(handleQuickCache)
    \/ \E p \in BagToSet(passes) :
          \E outcome \in {"ok", "notOk", "rejected", "decodeError"} :
             System(TileSettled(p, outcome))
    \/ \E products \in ProductLists : System(loadProducts("ok", products))
    \/ System(loadProducts("rejected", << >>))
    \/ \E outcome \in {"ok", "notOk", "rejected"} : System(GenerateDone(outcome))
    \/ System(ReloadTimer)
    \/ System(render)

Spec == Init /\ [][Next]_vars

\* the event loop runs a scheduled animation frame; nothing is assumed of the
\* network: a fetch may stay pending for ever
SpecRender == Spec /\ WF_vars(System(render))

\* a suspended loadVisibleTiles activation is resumed: its fetch settles, with
\* any outcome
SomeTileSettles ==
    \E p \in BagToSet(passes) :
       \E outcome \in {"ok", "notOk", "rejected", "decodeError"} :
          System(TileSettled(p, outcome))

\* a pending loadProducts gets its answer
SomeProductLoadSettles ==
    \/ \E products \in ProductLists : System(loadProducts("ok", products))
    \/ System(loadProducts("rejected", << >>))

\* the viewer under the inputs that start a visibility pass (a resize event)
\* and that clear the cache and the in-flight set while fetches are pending
\* (the zoom buttons), with the product-list load and the tile fetches
NextViewer ==
    \/ Input(resizeCanvas(InitialCanvas))
    \/ Input(ZoomInClick)
    \/ Input(ZoomOutClick)
    \/ SomeTileSettles
    \/ SomeProductLoadSettles

\* the network answers every tile and product-list request and the event
\* loop runs the continuation; nothing is assumed of the user
SpecAnswered ==
    /\ Init
    /\ [][NextViewer]_vars
    /\ WF_vars(SomeTileSettles)
    /\ WF_vars(SomeProductLoadSettles)

----------------------------------------------------------------------------
(* Pan-only input: a product is shown and a drag is under way; the user     *)
(* moves the pointer, releases and presses it again and resizes the window; *)
(* there is no zoom request, reset or product change.                       *)

\* pointer positions of the drag: at the press point, and far enough to the
\* right that the whole grid leaves the canvas
PanPoints == {[x |-> 0, y |-> 0], [x |-> 1024, y |-> 0]}

InitPan ==
    /\ currentProduct = ProductA
    /\ options = <<ProductA, ProductB>>
    /\ zoom = BaseZoom
    /\ pan = CenteredPan(InitialCanvas)
    /\ isDragging = TRUE
    /\ dragStart = [x |-> -CenteredPan(InitialCanvas).x, y |-> -CenteredPan(InitialCanvas).y]
    /\ tileImages = EmptyMap
    /\ loadingTiles = {}
    /\ canvas = InitialCanvas
    /\ passes = EmptyBag
    /\ productLoads = 0
    /\ generates = 0
    /\ reloadTimers = 0
    /\ lastOp = "handleMouseDown"
    /\ inputs = 0

NextPan ==
    \/ \E e \in PanPoints : Input(handleMouseMove(e))
    \/ \E e \in PanPoints : Input(handleMouseDown(e))
    \/ Input(handleMouseUp)
    \/ \E size \in CanvasSizes : Input(resizeCanvas(size))
    \/ SomeTileSettles
    \/ System(render)

SpecPan == InitPan /\ [][NextPan]_vars

----------------------------------------------------------------------------
(* The grid arithmetic on its own: getVisibleTiles over a range of zoom     *)
(* levels, pan offsets and canvas sizes, and the fetches loadVisibleTiles    *)
(* issues for the tiles it returns.                                          *)

\* the deepest zoom level of the grid specification
MaxGridZoom == 3

\* a product whose pyramid reaches MaxGridZoom
ProductDeep == [id |-> "D", max_zoom |-> MaxGridZoom]

\* pan offsets in pixels: beyond either edge of the largest grid, across an
\* edge, and inside the grid
GridOffsets == {-16000, -3500, -300, 0, 300, 20000}

\* canvas sizes: empty, one base tile, larger than the base tile
GridSizes == {[width |-> 0, height |-> 0], [width |-> 256, height |-> 256],
              [width |-> 1024, height |-> 768]}

InitGrid ==
    /\ currentProduct = ProductDeep
    /\ options = <<ProductDeep>>
    /\ zoom \in 0..MaxGridZoom
    /\ pan \in [x : {o * Sub : o \in GridOffsets}, y : {o * Sub : o \in GridOffsets}]
    /\ isDragging = FALSE
    /\ dragStart = [x |-> 0, y |-> 0]
    /\ tileImages = EmptyMap
    /\ loadingTiles = {}
    /\ canvas \in GridSizes
    /\ passes = EmptyBag
    /\ productLoads = 0
    /\ generates = 0
    /\ reloadTimers = 0
    /\ lastOp = "loadProducts:loaded"
    /\ inputs = 0

NextGrid ==
    \/ \E size \in GridSizes : Input(resizeCanvas(size))
    \/ \E p \in BagToSet(passes) : System(TileSettled(p, "ok"))

SpecGrid == InitGrid /\ [][NextGrid]_vars

----------------------------------------------------------------------------
(* Vocabulary of the properties *)

\* the keys of the cached tiles
Cached == DOMAIN tileImages

\* the suspended activations, each awaiting the fetch of its current tile
Fetching == BagToSet(passes)

\* 0 <= row < 2^zoom and 0 <= col < 2^zoom
InGrid(tile) ==
    /\ 0 <= tile.row /\ tile.row < 2 ^ tile.zoom
    /\ 0 <= tile.col /\ tile.col < 2 ^ tile.zoom

\* the outcomes of a tile fetch that load no image
Failures == {"notOk", "rejected", "decodeError"}

\* the step replaces the zoom level or the current product
ViewChanged == zoom' # zoom \/ currentProduct' # currentProduct

\* the step resumes the suspended activation p: p leaves the bag of suspended
\* activations (what the step suspends anew has a shorter tile list than p)
Settles(p) == CopiesIn(p, passes') < CopiesIn(p, passes)

----------------------------------------------------------------------------
(* C1: for every (product, tile key) at most one tile fetch is outstanding. *)
C1_OneFetchPerKey ==
    \A p \in Fetching :
        /\ CopiesIn(p, passes) = 1
        /\ \A q \in Fetching :
              (q.product = p.product /\ Key(q.tile) = Key(p.tile)) => q = p

(* C2: an image a step puts into the cache belongs to the current zoom       *)
(* level: a fetch completing after the zoom has changed adds no entry.       *)
C2_StaleZoomDiscarded ==
    [][\A k \in DOMAIN tileImages' :
          (k \notin Cached \/ tileImages'[k] # tileImages[k])
             => tileImages'[k].zoom = zoom']_vars

(* C3: an image a step puts into the cache was fetched for the current       *)
(* product: a fetch issued for one product and completing after the switch   *)
(* to another never installs its image.                                      *)
C3_StaleProductDiscarded ==
    [][\A k \in DOMAIN tileImages' :
          (k \notin Cached \/ tileImages'[k] # tileImages[k])
             => tileImages'[k].product = currentProduct'.id]_vars

(* C4: between tasks no tile key is both cached and in flight. *)
C4_CachedNotInFlight == Cached \cap loadingTiles = {}

\* a fetch is outstanding for a key that is already cached: the other fetch
\* for that key (a stale and a newer one are both in progress) completed first
C4_Witness ==
    \E p \in Fetching : Key(p.tile) \in Cached /\ Key(p.tile) \notin loadingTiles

(* C5: a step that changes the zoom level or replaces the current product    *)
(* leaves no cache entry, and no in-flight mark other than those of the      *)
(* fetches it issues itself.                                                 *)
C5_ViewChangeClears ==
    [][ViewChanged =>
          /\ tileImages' = EmptyMap
          /\ loadingTiles' \subseteq {Key(p.tile) : p \in BagToSet(passes' (-) passes)}]_vars

(* C6: while a product is selected, zoom is in [0, product.max_zoom]. *)
C6_ZoomInRange ==
    currentProduct # NoProduct => zoom \in 0..currentProduct.max_zoom

\* the width and height, in 1/Sub pixel, of the grid render draws at zoom z:
\* 2^z tiles a side, each drawn tileScale = TILE_SIZE * 2^z pixels wide
GridExtent(z) == (2 ^ z) * TILE_SIZE * (2 ^ z) * Sub

\* the selected product is one whose deepest level is the base tile
C6_Witness ==
    currentProduct # NoProduct /\ currentProduct.max_zoom = 0

(* C7: every tile of the visible set, and every tile a loadVisibleTiles      *)
(* activation fetches or is still to examine, lies in the grid of its zoom   *)
(* level: 0 <= row < 2^zoom and 0 <= col < 2^zoom.                           *)
C7_TilesInGrid ==
    /\ LET visible == getVisibleTiles(currentProduct, zoom, pan, canvas)
       IN  \A i \in 1..Len(visible) : InGrid(visible[i]) /\ visible[i].zoom = zoom
    /\ \A p \in Fetching :
          /\ InGrid(p.tile)
          /\ \A i \in 1..Len(p.rest) : InGrid(p.rest[i])

\* the fetch of a tile in the last column of the grid is outstanding while the
\* canvas reaches beyond the grid's right edge and the grid origin lies left of
\* the canvas: both clamps of the column range are at work
C7_Witness ==
    \E p \in Fetching :
        /\ p.tile.zoom = zoom /\ zoom >= 2
        /\ p.tile.col = 2 ^ zoom - 1
        /\ pan.x < 0
        /\ pan.x + TILE_SIZE * (2 ^ zoom) * (2 ^ zoom) * Sub < canvas.width * Sub

C9_NoProductNoOp ==
    [][(/\ currentProduct = NoProduct
        /\ lastOp' \in {"handleMouseDown", "handleMouseMove:drag", "handleMouseMove:idle",
                       "handleMouseUp", "setZoom:noProduct", "setZoom:changed",
                       "setZoom:same"})
          => UNCHANGED <<zoom, pan, tileImages, loadingTiles, passes>>]_vars

(* C10: a step that changes neither the zoom level nor the current product   *)
(* removes no cache entry and no in-flight mark other than that of the fetch *)
(* it completes; a setZoom whose clamped target is the current zoom changes  *)
(* neither pan, cache nor in-flight set and issues no fetch.                 *)
C10_OnlyViewChangeRemoves ==
    [][/\ ~ViewChanged =>
             /\ Cached \subseteq DOMAIN tileImages'
             /\ \A k \in loadingTiles \ loadingTiles' :
                   \E p \in Fetching : Key(p.tile) = k /\ Settles(p)
       /\ \A newZoom \in {zoom - 1, zoom + 1} :
             (/\ currentProduct # NoProduct
              /\ ClampZoom(currentProduct, newZoom) = zoom
              /\ setZoom(newZoom))
                => UNCHANGED <<pan, tileImages, loadingTiles, passes>>]_vars

\* a zoom request beyond the product's range has just been clamped to the
\* current level while tiles are cached and a fetch is in flight
C10_Witness ==
    /\ lastOp = "setZoom:same"
    /\ Cached # {}
    /\ loadingTiles # {}

(* C11: an effective setZoom sets pan, per axis, to                          *)
(* center - (center - pan) * 2^(newZoom - oldZoom), and the point of the     *)
(* tile grid that render draws under the viewport centre before the change   *)
(* is drawn under the viewport centre after it.  The grid point at screen    *)
(* offset d from the grid origin is the fraction d / GridExtent(zoom) of the *)
(* grid; the two fractions are compared cross-multiplied.                    *)
C11_ZoomAnchoredAtCenter ==
    [][lastOp' = "setZoom:changed" =>
          LET centerX == (canvas.width * Sub) \div 2
              centerY == (canvas.height * Sub) \div 2
          IN  /\ IF zoom' > zoom
                 THEN /\ pan'.x = centerX - (centerX - pan.x) * (2 ^ (zoom' - zoom))
                      /\ pan'.y = centerY - (centerY - pan.y) * (2 ^ (zoom' - zoom))
                 ELSE /\ (centerX - pan'.x) * (2 ^ (zoom - zoom')) = centerX - pan.x
                      /\ (centerY - pan'.y) * (2 ^ (zoom - zoom')) = centerY - pan.y
              /\ (centerX - pan.x) * GridExtent(zoom') = (centerX - pan'.x) * GridExtent(zoom)
              /\ (centerY - pan.y) * GridExtent(zoom') = (centerY - pan'.y) * GridExtent(zoom)]_vars

\* the pan arithmetic of C11 alone, without the statement about the grid point
C11_PanFormula ==
    [][lastOp' = "setZoom:changed" =>
          LET centerX == (canvas.width * Sub) \div 2
              centerY == (canvas.height * Sub) \div 2
          IN  IF zoom' > zoom
              THEN /\ pan'.x = centerX - (centerX - pan.x) * (2 ^ (zoom' - zoom))
                   /\ pan'.y = centerY - (centerY - pan.y) * (2 ^ (zoom' - zoom))
              ELSE /\ (centerX - pan'.x) * (2 ^ (zoom - zoom')) = centerX - pan.x
                   /\ (centerY - pan'.y) * (2 ^ (zoom - zoom')) = centerY - pan.y]_vars

(* C12: in every state, whatever fetches are pending, a render pass can run  *)
(* and is one step; with the animation frames scheduled fairly, render       *)
(* passes occur again and again, also when a fetch never completes.          *)
C12_RenderNeverWaits ==
    /\ [](ENABLED System(render))
    /\ []<>(lastOp = "render")

\* a frame has just been rendered while a tile fetch is outstanding
C12_Witness ==
    /\ lastOp = "render"
    /\ passes # EmptyBag
    /\ loadingTiles # {}

\* every tile of the current visible set is in the tile cache
VisibleCached ==
    LET visible == getVisibleTiles(currentProduct, zoom, pan, canvas)
    IN  \A i \in 1..Len(visible) : Key(visible[i]) \in Cached

(* C13: every viewport mutation starts a visibility pass, so that when no    *)
(* tile fetch ever fails and every request is answered, from some point on   *)
(* (when input has stopped) every visible tile key is in the tile cache.     *)
C13_VisibleEventuallyCached ==
    [](lastOp # "tile:failed") => <>[]VisibleCached

(* C14: under pan-only input no fetch is issued for a key that is in the     *)
(* in-flight set or in the cache, or that has a fetch outstanding: however   *)
(* often a key leaves and re-enters the visible set while its fetch is       *)
(* pending, it has one outstanding fetch.                                    *)
C14_PanNeverRefetches ==
    [][\A q \in BagToSet(passes' (-) passes) :
          /\ Key(q.tile) \notin loadingTiles \cup Cached
          /\ \A p \in Fetching : Key(p.tile) # Key(q.tile)
          /\ CopiesIn(q, passes') = 1]_vars

\* the fetch of a key is pending, the drag has moved the key out of the
\* visible set, and the user can still drag it back in
C14_Witness ==
    /\ lastOp = "handleMouseMove:drag"
    /\ inputs < MaxInputs
    /\ \E p \in Fetching :
          /\ Key(p.tile) \in loadingTiles
          /\ LET visible == getVisibleTiles(currentProduct, zoom, pan, canvas)
             IN  \A i \in 1..Len(visible) : visible[i] # p.tile

(* C15: getVisibleTiles returns no tile when the canvas has zero width or    *)
(* zero height, and when the whole grid lies outside the canvas: its origin  *)
(* at or beyond the right or bottom edge, or its far edge at or before the   *)
(* left or top edge.                                                         *)
C15_EmptyWhenNothingVisible ==
    (\/ canvas.width = 0
     \/ canvas.height = 0
     \/ pan.x >= canvas.width * Sub
     \/ pan.y >= canvas.height * Sub
     \/ pan.x + GridExtent(zoom) <= 0
     \/ pan.y + GridExtent(zoom) <= 0)
       => getVisibleTiles(currentProduct, zoom, pan, canvas) = << >>

(* C16: a tile-range generation request and the product-list refresh it      *)
(* schedules leave the selection and the viewport as they are: when the      *)
(* refreshed list arrives while a product is shown, the current product's    *)
(* id, the zoom level and the pan are unchanged; so are they when the        *)
(* request is made, when it is answered and when the timer fires.            *)
C16_RefreshKeepsViewport ==
    [][(/\ currentProduct # NoProduct
        /\ lastOp' \in {"cache:requested", "generate:accepted", "generate:failed",
                       "reloadTimer", "loadProducts:loaded", "loadProducts:none"})
          => /\ currentProduct'.id = currentProduct.id
             /\ zoom' = zoom
             /\ pan' = pan]_vars

(* C17: a key is in loadingTiles exactly when a fetch for that key has been  *)
(* issued and has not completed.                                             *)
C17_InFlightExact ==
    loadingTiles = {Key(p.tile) : p \in Fetching}

(* C18: a step that starts a visibility pass marks in flight, and issues the *)
(* fetch of, every visible key that is neither cached nor in flight: after   *)
(* the step every visible key is cached or in flight with a fetch            *)
(* outstanding.                                                              *)
C18_PassFetchesAllAtOnce ==
    [][lastOp' \in {"resizeCanvas", "handleMouseMove:drag", "setZoom:changed",
                    "handleProductChange"}
          => LET visible == getVisibleTiles(currentProduct', zoom', pan', canvas')
             IN  \A i \in 1..Len(visible) :
                    \/ Key(visible[i]) \in DOMAIN tileImages'
                    \/ /\ Key(visible[i]) \in loadingTiles'
                       /\ \E q \in BagToSet(passes') : q.tile = visible[i]]_vars

(* C19: when a fetch is issued, its key has the current zoom level, belongs  *)
(* to the visible set of the current zoom, pan and canvas, and is requested  *)
(* for the current product.                                                  *)
C19_FetchForCurrentView ==
    [][\A q \in BagToSet(passes' (-) passes) :
          /\ q.tile.zoom = zoom'
          /\ q.product = currentProduct'.id
          /\ LET visible == getVisibleTiles(currentProduct', zoom', pan', canvas')
             IN  \E i \in 1..Len(visible) : visible[i] = q.tile]_vars

(* C20: when every issued fetch is answered, with whatever outcome, every    *)
(* in-flight mark is eventually cleared: from some point on, input having    *)
(* stopped, loadingTiles is empty and stays empty, and no loadVisibleTiles   *)
(* activation is left suspended.                                             *)
C20_MarksEventuallyCleared ==
    <>[](loadingTiles = {} /\ passes = EmptyBag)

\* all input has been handled, marks were set, and the last fetch has failed,
\* leaving no mark and no suspended activation
C20_Witness ==
    /\ inputs = MaxInputs
    /\ lastOp = "tile:failed"
    /\ loadingTiles = {}
    /\ passes = EmptyBag
    /\ Cached # {}

====
